---- MODULE Spec2Model ----
(***************************************************************************)
(* blair_mountain: the `union!` macro (src/src/lib.rs) expands a union     *)
(* declaration into an enum with checked accessors when debug_assertions   *)
(* is on, and into a raw union with unchecked accessors otherwise.         *)
(*                                                                         *)
(* The model instantiates the macro on `example::Example`                  *)
(*     one: &'static str,  two: u32,  private: f32                         *)
(* and drives one caller program against both expansions at once: `dbg*`   *)
(* is the instance of the debug build, `rel*` the instance of the release  *)
(* build.  Values are tuples of naturals: a &str is <<ptr, len>>, a u32 is *)
(* <<n>>, an f32 is <<sign, exponent, mantissa>>.  The release storage is  *)
(* an array of bytes (little endian, 4-byte pointers); a byte that was     *)
(* never written is Uninit and reads as an arbitrary byte.                 *)
(***************************************************************************)
EXTENDS Integers, Sequences, FiniteSets, TLC

Members == {"one", "two", "private"}

\* size in bytes of each member's type; the union is as large as the largest
SizeOf == [one |-> 8, two |-> 4, private |-> 4]

Offsets == 0..7

Uninit == -1

\* bytes an uninitialised byte may read as
GarbageBytes == {0, 90}

\* the values of each member's type that the caller passes in
\* number of distinct u32 values the caller uses
NumTwo == 2

Values ==
    [one     |-> {<<4209168, 5>>, <<4209200, 0>>},
     two     |-> {<<101 + (1133 * k)>> : k \in 0..(NumTwo - 1)},
     private |-> {<<0, 127, 0>>, <<0, 128, 2097152>>}]

NoRet == <<>>

NoPanic == "none"

PanicMsg == "unexpected union member"

NoOp == [op |-> "none", m |-> "none"]

(***************************************************************************)
(* Representation of the member types in memory.                           *)
(***************************************************************************)
LE32(n) == <<n % 256, (n \div 256) % 256, (n \div 65536) % 256, (n \div 16777216) % 256>>

FromLE32(b) == b[1] + (256 * b[2]) + (65536 * b[3]) + (16777216 * b[4])

F32Bytes(f) ==
    <<f[3] % 256,
      (f[3] \div 256) % 256,
      ((f[2] % 2) * 128) + ((f[3] \div 65536) % 128),
      (f[1] * 128) + (f[2] \div 2)>>

F32FromBytes(b) ==
    <<b[4] \div 128,
      ((b[4] % 128) * 2) + (b[3] \div 128),
      ((b[3] % 128) * 65536) + (b[2] * 256) + b[1]>>

Encode(m, v) ==
    CASE m = "one"     -> LE32(v[1]) \o LE32(v[2])
      [] m = "two"     -> LE32(v[1])
      [] m = "private" -> F32Bytes(v)

Decode(m, b) ==
    CASE m = "one"     -> <<FromLE32(SubSeq(b, 1, 4)), FromLE32(SubSeq(b, 5, 8))>>
      [] m = "two"     -> <<FromLE32(b)>>
      [] m = "private" -> F32FromBytes(b)

\* the bytes of member m's field; g supplies what the uninitialised bytes read as
View(st, m, g) ==
    [i \in 1..SizeOf[m] |-> IF st[i - 1] = Uninit THEN g[i - 1] ELSE st[i - 1]]

Initialised(st, m) == \A i \in 0..(SizeOf[m] - 1) : st[i] # Uninit

(***************************************************************************)
(* cfg(debug_assertions): enum <Name>Inner and its methods.                *)
(***************************************************************************)
CheckedNew(m, val) == [tag |-> m, val |-> val]

\* get_<member> without the match on the variant
CheckedGet_NoMatch(inner, m) ==
    [ok |-> TRUE, val |-> inner.val, panic |-> NoPanic, self |-> inner]

CheckedGet(inner, m) ==
    IF inner.tag = m
    THEN [ok |-> TRUE,  val |-> inner.val, panic |-> NoPanic,  self |-> inner]
    ELSE [ok |-> FALSE, val |-> NoRet,     panic |-> PanicMsg, self |-> inner]

CheckedGetMut(inner, m) ==
    IF inner.tag = m
    THEN [ok |-> TRUE,  val |-> inner.val, panic |-> NoPanic,  self |-> inner]
    ELSE [ok |-> FALSE, val |-> NoRet,     panic |-> PanicMsg, self |-> inner]

\* set_<member> that stores the payload under the variant already there
CheckedSet_KeepTag(inner, m, new) == [tag |-> inner.tag, val |-> new]

CheckedSet(inner, m, new) == [tag |-> m, val |-> new]

CheckedInto(inner, m) ==
    IF inner.tag = m
    THEN [ok |-> TRUE,  val |-> inner.val, panic |-> NoPanic]
    ELSE [ok |-> FALSE, val |-> NoRet,     panic |-> PanicMsg]

\* a write that is lost (the accessor handed out a reference to a copy)
CheckedWrite_Lost(inner, w) == inner

\* `*r = w` through the reference returned by get_<member>_mut
CheckedWrite(inner, w) == [tag |-> inner.tag, val |-> w]

(***************************************************************************)
(* cfg(not(debug_assertions)): union <Name>Inner and its methods.          *)
(***************************************************************************)
\* new_<member> that initialises the first four bytes only
UncheckedNew_HeadOnly(m, val) ==
    [i \in Offsets |-> IF i < SizeOf[m] /\ i < 4 THEN Encode(m, val)[i + 1] ELSE Uninit]

UncheckedNew(m, val) ==
    [i \in Offsets |-> IF i < SizeOf[m] THEN Encode(m, val)[i + 1] ELSE Uninit]

\* get_<member> that stores back the bytes it read
UncheckedGet_StoreBack(st, m, g) ==
    [ok |-> TRUE, val |-> Decode(m, View(st, m, g)), panic |-> NoPanic,
     self |-> [i \in Offsets |-> IF i < SizeOf[m] THEN View(st, m, g)[i + 1] ELSE st[i]]]

UncheckedGet(st, m, g) ==
    [ok |-> TRUE, val |-> Decode(m, View(st, m, g)), panic |-> NoPanic, self |-> st]

UncheckedGetMut(st, m, g) ==
    [ok |-> TRUE, val |-> Decode(m, View(st, m, g)), panic |-> NoPanic, self |-> st]

\* set_<member> that leaves the last byte of the field as it was
UncheckedSet_ShortWrite(st, m, new) ==
    [i \in Offsets |-> IF i < SizeOf[m] - 1 THEN Encode(m, new)[i + 1] ELSE st[i]]

UncheckedSet(st, m, new) ==
    [i \in Offsets |-> IF i < SizeOf[m] THEN Encode(m, new)[i + 1] ELSE st[i]]

\* into_<member> that refuses a field with uninitialised bytes
UncheckedInto_Guarded(st, m, g) ==
    IF Initialised(st, m)
    THEN [ok |-> TRUE,  val |-> Decode(m, View(st, m, g)), panic |-> NoPanic]
    ELSE [ok |-> FALSE, val |-> NoRet,                     panic |-> PanicMsg]

UncheckedInto(st, m, g) ==
    [ok |-> TRUE, val |-> Decode(m, View(st, m, g)), panic |-> NoPanic]

\* `*r = w` through the reference returned by get_<member>_mut
UncheckedWrite(st, m, w) ==
    [i \in Offsets |-> IF i < SizeOf[m] THEN Encode(m, w)[i + 1] ELSE st[i]]

(***************************************************************************)
(* State.                                                                  *)
(***************************************************************************)
VARIABLES
    dbgInner,    \* debug build: the enum value held by the wrapper struct
    dbgStatus,   \* debug build: "live", "consumed" (into_) or "aborted" (panic)
    dbgRet,      \* debug build: what the last call returned
    dbgPanic,    \* debug build: panic message of the last call
    relStorage,  \* release build: the bytes of the union held by the wrapper
    relStatus,   \* release build: "live", "consumed" or "aborted"
    relRet,      \* release build: what the last call returned
    relPanic,    \* release build: panic message of the last call
    borrow,      \* member the caller holds a &mut to (from get_<member>_mut)
    lastOp,      \* the call the caller made last
    prevOp,      \* the call before it
    active,      \* member named by the most recent new_/set_ call
    written,     \* member written last, by new_, set_ or through a &mut
    payload,     \* value written last
    misused,     \* some get_/get_mut/into_ of this instance named another member
    intoCount    \* number of into_ calls made on this instance

vars == <<dbgInner, dbgStatus, dbgRet, dbgPanic, relStorage, relStatus, relRet,
          relPanic, borrow, lastOp, prevOp, active,
          written, payload, misused, intoCount>>

\* what the uninitialised bytes of member m's field may read as
Garbage(st, m) == [{i \in 0..(SizeOf[m] - 1) : st[i] = Uninit} -> GarbageBytes]

DbgLive == dbgStatus = "live"

RelLive == relStatus = "live"

\* into_<member> taking &self: the caller keeps the instance
Owned_Always == TRUE

\* the caller still owns the instance: it was not moved into an into_ call
Owned == relStatus # "consumed" /\ dbgStatus # "consumed"

Call(op, m) == [op |-> op, m |-> m]

Shift == prevOp' = lastOp

\* outcome of a debug-build accessor whose result is r
DbgOutcome(r) ==
    IF DbgLive
    THEN /\ dbgRet' = r.val
         /\ dbgPanic' = r.panic
    ELSE /\ dbgRet' = NoRet
         /\ dbgPanic' = NoPanic

\* outcome of a release-build accessor whose result is r
RelOutcome(r) ==
    IF RelLive
    THEN /\ relRet' = r.val
         /\ relPanic' = r.panic
    ELSE /\ relRet' = NoRet
         /\ relPanic' = NoPanic

Init ==
    \E m \in Members : \E v \in Values[m] :
        /\ dbgInner = CheckedNew(m, v)
        /\ dbgStatus = "live"
        /\ dbgRet = NoRet
        /\ dbgPanic = NoPanic
        /\ relStorage = UncheckedNew(m, v)
        /\ relStatus = "live"
        /\ relRet = NoRet
        /\ relPanic = NoPanic
        /\ borrow = "none"
        /\ lastOp = Call("new", m)
        /\ prevOp = NoOp
        /\ active = m
        /\ written = m
        /\ payload = v
        /\ misused = FALSE
        /\ intoCount = 0

\* let x = Name::new_<m>(v): a fresh instance replaces the caller's old one
New(m, v) ==
    /\ dbgInner' = CheckedNew(m, v)
    /\ dbgStatus' = "live"
    /\ dbgRet' = NoRet
    /\ dbgPanic' = NoPanic
    /\ relStorage' = UncheckedNew(m, v)
    /\ relStatus' = "live"
    /\ relRet' = NoRet
    /\ relPanic' = NoPanic
    /\ borrow' = "none"
    /\ lastOp' = Call("new", m)
    /\ active' = m
    /\ written' = m
    /\ payload' = v
    /\ misused' = FALSE
    /\ intoCount' = 0
    /\ Shift

\* x.get_<m>()
Get(m) ==
    /\ Owned
    /\ \E g \in Garbage(relStorage, m) :
        LET d == CheckedGet(dbgInner, m)
            r == UncheckedGet(relStorage, m, g)
        IN /\ DbgOutcome(d)
           /\ dbgStatus' = IF DbgLive /\ ~d.ok THEN "aborted" ELSE dbgStatus
           /\ dbgInner' = IF DbgLive THEN d.self ELSE dbgInner
           /\ RelOutcome(r)
           /\ relStatus' = IF RelLive /\ ~r.ok THEN "aborted" ELSE relStatus
           /\ relStorage' = IF RelLive THEN r.self ELSE relStorage
    /\ borrow' = "none"
    /\ lastOp' = Call("get", m)
    /\ misused' = (misused \/ m # active)
    /\ Shift
    /\ UNCHANGED <<active, written, payload, intoCount>>

\* let r = x.get_<m>_mut()
GetMut(m) ==
    /\ Owned
    /\ \E g \in Garbage(relStorage, m) :
        LET d == CheckedGetMut(dbgInner, m)
            r == UncheckedGetMut(relStorage, m, g)
        IN /\ DbgOutcome(d)
           /\ dbgStatus' = IF DbgLive /\ ~d.ok THEN "aborted" ELSE dbgStatus
           /\ dbgInner' = IF DbgLive THEN d.self ELSE dbgInner
           /\ RelOutcome(r)
           /\ relStatus' = IF RelLive /\ ~r.ok THEN "aborted" ELSE relStatus
           /\ relStorage' = IF RelLive THEN r.self ELSE relStorage
    /\ borrow' = m
    /\ lastOp' = Call("get_mut", m)
    /\ misused' = (misused \/ m # active)
    /\ Shift
    /\ UNCHANGED <<active, written, payload, intoCount>>

\* *r = w, r being the reference the last get_<m>_mut returned
Write(w) ==
    /\ Owned
    /\ borrow # "none"
    /\ w \in Values[borrow]
    /\ dbgInner' = IF DbgLive THEN CheckedWrite(dbgInner, w) ELSE dbgInner
    /\ relStorage' = IF RelLive THEN UncheckedWrite(relStorage, borrow, w) ELSE relStorage
    /\ dbgRet' = NoRet
    /\ dbgPanic' = NoPanic
    /\ relRet' = NoRet
    /\ relPanic' = NoPanic
    /\ lastOp' = Call("write", borrow)
    /\ written' = borrow
    /\ payload' = w
    /\ Shift
    /\ UNCHANGED <<dbgStatus, relStatus, borrow, active, misused, intoCount>>

\* x.set_<m>(v)
Set(m, v) ==
    /\ Owned
    /\ dbgInner' = IF DbgLive THEN CheckedSet(dbgInner, m, v) ELSE dbgInner
    /\ relStorage' = IF RelLive THEN UncheckedSet(relStorage, m, v) ELSE relStorage
    /\ dbgRet' = NoRet
    /\ dbgPanic' = NoPanic
    /\ relRet' = NoRet
    /\ relPanic' = NoPanic
    /\ borrow' = "none"
    /\ lastOp' = Call("set", m)
    /\ active' = m
    /\ written' = m
    /\ payload' = v
    /\ Shift
    /\ UNCHANGED <<dbgStatus, relStatus, misused, intoCount>>

\* x.into_<m>(): takes the instance by value
Into(m) ==
    /\ Owned
    /\ \E g \in Garbage(relStorage, m) :
        LET d == CheckedInto(dbgInner, m)
            r == UncheckedInto(relStorage, m, g)
        IN /\ DbgOutcome(d)
           /\ dbgStatus' = IF DbgLive THEN (IF d.ok THEN "consumed" ELSE "aborted")
                           ELSE dbgStatus
           /\ RelOutcome(r)
           /\ relStatus' = IF RelLive THEN (IF r.ok THEN "consumed" ELSE "aborted")
                           ELSE relStatus
    /\ borrow' = "none"
    /\ lastOp' = Call("into", m)
    /\ misused' = (misused \/ m # active)
    /\ intoCount' = intoCount + 1
    /\ Shift
    /\ UNCHANGED <<dbgInner, relStorage, active, written, payload>>

Next ==
    \/ \E m \in Members : \E v \in Values[m] : New(m, v)
    \/ \E m \in Members : Get(m)
    \/ \E m \in Members : GetMut(m)
    \/ \E w \in UNION {Values[m] : m \in Members} : Write(w)
    \/ \E m \in Members : \E v \in Values[m] : Set(m, v)
    \/ \E m \in Members : Into(m)

Spec == Init /\ [][Next]_vars

(***************************************************************************)
(* Properties.                                                             *)
(***************************************************************************)
Accessors == {"get", "get_mut", "into"}

\* the debug build executed the last call (it had not panicked before it)
DbgRan == dbgStatus # "aborted" \/ dbgPanic # NoPanic

\* C1: debug build: after new_m1(v), a get_m2, get_m2_mut or into_m2 with
\* m2 # m1 panics with "unexpected union member" and returns nothing.
C1_WrongMemberPanics ==
    (prevOp.op = "new" /\ lastOp.op \in Accessors /\ lastOp.m # prevOp.m)
        => (dbgStatus = "aborted" /\ dbgPanic = PanicMsg /\ dbgRet = NoRet)

C1_Witness ==
    /\ prevOp = Call("new", "one")
    /\ lastOp = Call("get_mut", "two")
    /\ dbgStatus = "aborted"
    /\ dbgPanic = PanicMsg

\* C2: debug build: the variant recorded in the enum is the member named by
\* the most recent new_/set_ call, whatever get_/get_mut calls and writes came
\* in between; so a get_ of that member returns the value established for it
\* and a get_ of any other member panics.
C2_TagIsLastEstablished ==
    /\ dbgStatus # "aborted" => (dbgInner.tag = active /\ written = active)
    /\ (lastOp.op = "get" /\ lastOp.m = active /\ DbgRan)
           => (dbgStatus = "live" /\ dbgRet = payload)
    /\ (lastOp.op = "get" /\ lastOp.m # active /\ DbgRan)
           => (dbgStatus = "aborted" /\ dbgPanic = PanicMsg /\ dbgRet = NoRet)

C2_Witness ==
    /\ prevOp = Call("set", "two")
    /\ lastOp = Call("get", "one")
    /\ active = "two"
    /\ dbgInner.tag = "two"
    /\ dbgPanic = PanicMsg

\* C3: as long as every get_/get_mut/into_ of the instance names the member
\* most recently established by new_/set_, neither build panics and every
\* call returns the same value in the debug and in the release build.
C3_ProfilesAgreeOnHappyPath ==
    ~misused =>
        /\ dbgStatus # "aborted" /\ dbgPanic = NoPanic
        /\ relStatus # "aborted" /\ relPanic = NoPanic
        /\ dbgStatus = relStatus
        /\ dbgRet = relRet

C3_Witness ==
    /\ ~misused
    /\ prevOp = Call("write", "private")
    /\ lastOp = Call("into", "private")
    /\ dbgRet = relRet
    /\ dbgRet \in Values["private"]

\* C4: set_m(v2) never panics, whatever member is active, and a get_m() that
\* follows it returns v2, in both builds.
C4_SetThenGet ==
    /\ lastOp.op = "set" => (dbgPanic = NoPanic /\ relPanic = NoPanic
                             /\ relStatus = "live" /\ active = lastOp.m)
    /\ (prevOp.op = "set" /\ lastOp = Call("get", prevOp.m))
           => /\ relRet = payload /\ relStatus = "live" /\ relPanic = NoPanic
              /\ DbgRan => (dbgRet = payload /\ dbgStatus = "live")

C4_Witness ==
    /\ prevOp = Call("set", "one")
    /\ lastOp = Call("get", "one")
    /\ dbgRet = payload
    /\ relRet = payload
    /\ payload \in Values["one"]
    /\ ~misused

\* C5: new_m(v) followed immediately by get_m() returns v in both builds and
\* neither panics.
C5_NewThenGet ==
    (prevOp.op = "new" /\ lastOp = Call("get", prevOp.m))
        => /\ dbgRet = payload /\ dbgStatus = "live" /\ dbgPanic = NoPanic
           /\ relRet = payload /\ relStatus = "live" /\ relPanic = NoPanic

C5_Witness ==
    /\ prevOp = Call("new", "one")
    /\ lastOp = Call("get", "one")
    /\ dbgRet = <<4209168, 5>>
    /\ relRet = <<4209168, 5>>

\* C6: on an instance whose active member is m, a write of w through the
\* reference from get_m_mut() is what the next get_m() returns, in both builds,
\* and the write leaves the active member as it was.
C6_WriteThenGet ==
    /\ (lastOp.op = "write" /\ dbgStatus = "live")
           => (dbgInner.tag = active /\ dbgInner.tag = lastOp.m)
    /\ (prevOp.op = "write" /\ lastOp = Call("get", prevOp.m) /\ active = prevOp.m)
           => /\ relRet = payload /\ relStatus = "live" /\ relPanic = NoPanic
              /\ DbgRan => (dbgRet = payload /\ dbgStatus = "live")

C6_Witness ==
    /\ prevOp = Call("write", "two")
    /\ lastOp = Call("get", "two")
    /\ active = "two"
    /\ dbgRet = <<101>>
    /\ relRet = <<101>>

\* C7: into_m() on an instance whose active member is m (the member written
\* last, which the debug build records and the release build does not) returns
\* the value last established by new_m, set_m or a write through get_m_mut and
\* consumes the instance: into_ is called at most once and it is the last call
\* on the instance.
C7_IntoConsumes ==
    /\ (lastOp.op = "into" /\ lastOp.m = written)
           => /\ relRet = payload /\ relStatus = "consumed"
              /\ DbgRan => (dbgRet = payload /\ dbgStatus = "consumed")
    /\ intoCount <= 1
    /\ intoCount = 1 <=> lastOp.op = "into"
    /\ (relStatus = "consumed" \/ dbgStatus = "consumed") => lastOp.op = "into"

C7_Witness ==
    /\ prevOp = Call("write", "two")
    /\ lastOp = Call("into", "two")
    /\ ~misused
    /\ intoCount = 1
    /\ relRet = <<101>>
    /\ dbgStatus = "consumed"
    /\ relStatus = "consumed"

\* C8: release build: no call ever panics; get_m, get_m_mut and into_m return
\* the bytes of the storage read as m's type, whatever member was written last.
C8_UncheckedNeverPanics ==
    /\ relStatus # "aborted"
    /\ relPanic = NoPanic
    /\ lastOp.op \in Accessors =>
           \E g \in Garbage(relStorage, lastOp.m) :
               relRet = Decode(lastOp.m, View(relStorage, lastOp.m, g))

C8_Witness ==
    /\ prevOp = Call("set", "private")
    /\ lastOp = Call("into", "one")
    /\ ~Initialised(relStorage, "one")
    /\ dbgStatus = "aborted"
    /\ relStatus = "consumed"
    /\ relRet # NoRet

\* a get_ that returns leaves the instance as it was (both builds), and neither
\* get_ nor get_mut changes the variant recorded in the debug build
GetFrame ==
    /\ lastOp'.op = "get" =>
           /\ relStorage' = relStorage /\ relStatus' = relStatus
           /\ dbgStatus' = "live" => dbgInner' = dbgInner
    /\ lastOp'.op \in {"get", "get_mut"} => dbgInner'.tag = dbgInner.tag

\* the debug build's get_ returns what the same get_ returned just before
DbgGetRepeats ==
    (lastOp.op = "get" /\ lastOp' = lastOp /\ dbgStatus' = "live") => dbgRet' = dbgRet

\* C10 as stated: a get_m() that returns leaves the instance unchanged in both
\* builds, and so two consecutive get_m() calls return equal values in both.
C10_GetChangesNothing ==
    [][/\ GetFrame
       /\ DbgGetRepeats
       /\ (lastOp.op = "get" /\ lastOp' = lastOp) => relRet' = relRet]_vars

\* C10 amended: a get_m() that returns leaves the instance unchanged in both
\* builds; two consecutive get_m() calls return equal values in the debug
\* build, and in the release build when every byte of m's field is initialised.
C10_GetChangesNothingInitialised ==
    [][/\ GetFrame
       /\ DbgGetRepeats
       /\ (lastOp.op = "get" /\ lastOp' = lastOp /\ Initialised(relStorage, lastOp.m))
              => relRet' = relRet]_vars

C10_Witness ==
    /\ prevOp = Call("get", "one")
    /\ lastOp = Call("get", "one")
    /\ active = "two"
    /\ Initialised(relStorage, "one")
    /\ dbgStatus = "aborted"
    /\ relRet # NoRet

====
